---- MODULE Spec2Model ----
(***************************************************************************)
(* A model of make_responsive_images/main.py: the Typer application with   *)
(* its eager --version option and the `image` command, which parses the    *)
(* --widths string, calls resize_image, optionally calls make_html,        *)
(* optionally unlinks the source file and prints a completion message.     *)
(*                                                                         *)
(* Text is modelled as a sequence of one-character strings, so that        *)
(* splitting, integer parsing, decimal formatting and file naming are      *)
(* computed character by character.                                        *)
(*                                                                         *)
(* resize_image and make_html live in make_responsive_images/utils.py;     *)
(* they are modelled from their documented contract.  main.py has no       *)
(* try/except: whatever either of them raises leaves `image` at once.      *)
(*                                                                         *)
(* The options classes, img_sizes, lazy, alt, dir, flask and qual are      *)
(* echoed and handed through unchanged; neither the control flow nor the   *)
(* file names depend on them, and they are not part of the state.          *)
(***************************************************************************)
EXTENDS Integers, Sequences, FiniteSets

\* The longest --widths string that is enumerated in full.
MaxWidthsLen == 3

\* ------------------------------------------------------------------ text

Digits == <<"0", "1", "2", "3", "4", "5", "6", "7", "8", "9">>

Upper == <<"A", "B", "C", "D", "E", "F", "G", "H", "I", "J", "K", "L", "M",
           "N", "O", "P", "Q", "R", "S", "T", "U", "V", "W", "X", "Y", "Z">>

Lower == <<"a", "b", "c", "d", "e", "f", "g", "h", "i", "j", "k", "l", "m",
           "n", "o", "p", "q", "r", "s", "t", "u", "v", "w", "x", "y", "z">>

IsDigit(c) == \E i \in 1..Len(Digits) : Digits[i] = c

DigitValue(c) == (CHOOSE i \in 1..Len(Digits) : Digits[i] = c) - 1

\* The positions of character c in s.
Positions(s, c) == {i \in 1..Len(s) : s[i] = c}

Max(S) == CHOOSE m \in S : \A k \in S : k <= m

Min(S) == CHOOSE m \in S : \A k \in S : m <= k

\* str.split(","): one more token than there are commas; tokens may be empty.
split(s) ==
  LET commas == Positions(s, ",")
      n      == Cardinality(commas)
      \* the position of the k-th comma, 0 before the first, Len+1 after the last
      at[k \in 0..(n + 1)] ==
        IF k = 0 THEN 0
        ELSE IF k = n + 1 THEN Len(s) + 1
        ELSE Min({i \in commas : Cardinality({j \in commas : j < i}) = k - 1})
  IN  [k \in 1..(n + 1) |-> SubSeq(s, at[k - 1] + 1, at[k] - 1)]

\* A mutant of split: empty tokens are dropped, as str.split() without a
\* separator drops empty fields.
split_drop_empty(s) ==
  LET commas == Positions(s, ",")
      n      == Cardinality(commas)
      at[k \in 0..(n + 1)] ==
        IF k = 0 THEN 0
        ELSE IF k = n + 1 THEN Len(s) + 1
        ELSE Min({i \in commas : Cardinality({j \in commas : j < i}) = k - 1})
      all    == [k \in 1..(n + 1) |-> SubSeq(s, at[k - 1] + 1, at[k] - 1)]
  IN  SelectSeq(all, LAMBDA t : t # <<>>)

widths_split(s) == split(s)

\* str.strip() as int() applies it: leading and trailing blanks go.
strip(t) ==
  LET solid == {i \in 1..Len(t) : t[i] # " "}
  IN  IF solid = {} THEN <<>> ELSE SubSeq(t, Min(solid), Max(solid))

\* The digits of an int() argument after its sign: groups of digits separated
\* by single underscores.
ValidDigits(d) ==
  /\ d # <<>>
  /\ \A i \in 1..Len(d) : IsDigit(d[i]) \/ d[i] = "_"
  /\ IsDigit(d[1]) /\ IsDigit(d[Len(d)])
  /\ \A i \in 1..(Len(d) - 1) : ~(d[i] = "_" /\ d[i + 1] = "_")

RECURSIVE DigitsValue(_)
DigitsValue(d) ==
  IF d = <<>> THEN 0
  ELSE IF d[Len(d)] = "_" THEN DigitsValue(SubSeq(d, 1, Len(d) - 1))
  ELSE 10 * DigitsValue(SubSeq(d, 1, Len(d) - 1)) + DigitValue(d[Len(d)])

\* int(token): [ok |-> TRUE, val |-> n], or ok = FALSE where int raises
\* ValueError.
py_int(t) ==
  LET s    == strip(t)
      sign == IF s # <<>> /\ s[1] \in {"+", "-"} THEN s[1] ELSE ""
      d    == IF sign = "" THEN s ELSE Tail(s)
  IN  IF ValidDigits(d)
      THEN [ok |-> TRUE,
            val |-> IF sign = "-" THEN 0 - DigitsValue(d) ELSE DigitsValue(d)]
      ELSE [ok |-> FALSE, val |-> 0]

\* A mutant of the list comprehension: the widths come out sorted.
RECURSIVE SortedSeq(_)
SortedSeq(q) ==
  IF q = <<>> THEN <<>>
  ELSE LET m == Min({q[i] : i \in 1..Len(q)})
           p == Min({i \in 1..Len(q) : q[i] = m})
       IN  <<m>> \o SortedSeq(SubSeq(q, 1, p - 1) \o SubSeq(q, p + 1, Len(q)))

int_list_sorted(tokens) ==
  IF \A i \in 1..Len(tokens) : py_int(tokens[i]).ok
  THEN [ok |-> TRUE,
        val |-> SortedSeq([i \in 1..Len(tokens) |-> py_int(tokens[i]).val])]
  ELSE [ok |-> FALSE, val |-> <<>>]

\* A mutant of the list comprehension: a token that is no integer is skipped.
int_list_skip_bad(tokens) ==
  LET good == SelectSeq(tokens, LAMBDA t : py_int(t).ok)
  IN  [ok |-> TRUE, val |-> [i \in 1..Len(good) |-> py_int(good[i]).val]]

\* [int(width) for width in widths_split]: every token is converted before
\* anything else happens; one bad token raises ValueError for the whole list.
int_list(tokens) ==
  IF \A i \in 1..Len(tokens) : py_int(tokens[i]).ok
  THEN [ok |-> TRUE, val |-> [i \in 1..Len(tokens) |-> py_int(tokens[i]).val]]
  ELSE [ok |-> FALSE, val |-> <<>>]

\* str(n) for an integer n.
RECURSIVE decimal(_)
decimal(n) ==
  IF n < 0 THEN <<"-">> \o decimal(0 - n)
  ELSE IF n < 10 THEN <<Digits[n + 1]>>
  ELSE decimal(n \div 10) \o <<Digits[(n % 10) + 1]>>

\* str.lower() on one character, and on a text.
lower_char(c) ==
  IF \E i \in 1..Len(Upper) : Upper[i] = c
  THEN Lower[CHOOSE i \in 1..Len(Upper) : Upper[i] = c]
  ELSE c

lower_text(s) == [i \in 1..Len(s) |-> lower_char(s[i])]

\* str.replace("_", "-").
dashes_text(s) == [i \in 1..Len(s) |-> IF s[i] = "_" THEN "-" ELSE s[i]]

\* Path.stem: the file name without its last suffix; a leading or a trailing
\* dot starts no suffix.
stem(name) ==
  LET dots == Positions(name, ".")
  IN  IF dots = {} \/ Max(dots) = 1 \/ Max(dots) = Len(name)
      THEN name
      ELSE SubSeq(name, 1, Max(dots) - 1)

\* ------------------------------------------------- utils.py, by contract

\* The formats resize_image encodes to.
Formats == {<<"w", "e", "b", "p">>, <<"j", "p", "g">>}

\* The name of the file written for one width: the stem, lowercased if
\* lower, its underscores replaced by hyphens if dashes, then -{width}.{fmt}.
new_filename(file, width, fmt, lower, dashes) ==
  LET s0 == stem(file)
      s1 == IF lower THEN lower_text(s0) ELSE s0
      s2 == IF dashes THEN dashes_text(s1) ELSE s1
  IN  s2 \o <<"-">> \o decimal(width) \o <<".">> \o fmt

\* The width descriptor make_html gives a file: the width read back from
\* its name (between the last hyphen and the last dot), then "w".
width_descriptor(filename) ==
  LET dash == Max(Positions(filename, "-") \cup {0})
      dot  == Max(Positions(filename, ".") \cup {0})
  IN  SubSeq(filename, dash + 1, dot - 1) \o <<"w">>

\* The srcset of the tag make_html builds: one entry per file name, in the
\* order of the file names.
make_html(names) ==
  [srcset |-> [i \in 1..Len(names) |->
                 [path |-> names[i],
                  descriptor |-> width_descriptor(names[i])]]]

\* ----------------------------------------------------------------- state

VARIABLES
  cli,            \* the parsed command line: option values of this run
  pc,             \* where the run is
  widths_list,    \* image: the integers parsed from --widths
  filenames,      \* image: what resize_image returned
  call,           \* resize_image: its arguments
  r_i,            \* resize_image: the index of the next width
  r_out,          \* resize_image: the file names produced so far
  disk,           \* the generated files that exist
  source_exists,  \* whether the source image file exists
  source_opens,   \* how often the source image was opened
  resize_calls,   \* how often resize_image was called
  html_calls,     \* the filenames argument of every make_html call, in order
  html_str,       \* image: what make_html returned
  stdout,         \* what was echoed, in order
  error           \* the exception that ended the run, "" if none

vars == <<cli, pc, widths_list, filenames, call, r_i, r_out, disk,
          source_exists, source_opens, resize_calls, html_calls, html_str,
          stdout, error>>

\* The source images of the runs explored.
Images == {<<"p", "h", "o", "t", "o", "_", "o", "n", "e", ".", "J", "P", "G">>,
           <<"X", "_", "y", ".", "j", "p", "g">>}

\* The characters of the --widths strings enumerated in full.
WidthChars == {"1", "6", ",", "a", "-"}

\* --widths strings beyond the enumerated ones: the default of the option,
\* lists out of order and with duplicates, malformed lists, and the forms
\* int() accepts besides plain digits.
WidthExamples ==
  {<<"6", "0", "0", ",", "1", "0", "0", "0", ",", "1", "4", "0", "0">>,
   <<"4", "0", "0", ",", "8", "0", "0">>,
   <<"1", "0", "0", "0", ",", "6", "0", "0">>,
   <<"6", "0", "0", ",", "a", "b", "c">>,
   <<"a", "b", "c", ",", "6", "0", "0">>,
   <<"6", ",", "1">>, <<"1", ",", "6">>, <<"6", ",", "6">>,
   <<"6", ",", "1", ",", "6">>, <<"6", ",", "1", ",">>,
   <<"6", ",", " ", "1">>, <<"1", "_", "6">>, <<"+", "6">>, <<"0">>}

WidthStrings ==
  UNION {[1..n -> WidthChars] : n \in 0..MaxWidthsLen} \cup WidthExamples

\* --fmt is a free string: the two supported formats and one that is not.
FmtStrings == Formats \cup {<<"p", "n", "g">>}

NoCall == [file |-> <<>>, widths |-> <<>>, fmt |-> <<>>,
           lower |-> FALSE, dashes |-> FALSE]

NoHtml == [srcset |-> <<>>]

Init ==
  /\ cli \in [version : BOOLEAN, command : {"image", ""}, image : Images,
              widths : WidthStrings, html : BOOLEAN, fmt : FmtStrings,
              lower : BOOLEAN, dashes : BOOLEAN, delete : BOOLEAN]
  /\ pc = "cli"
  /\ widths_list = <<>>
  /\ filenames = <<>>
  /\ call = NoCall
  /\ r_i = 0
  /\ r_out = <<>>
  /\ disk = {}
  /\ source_exists = TRUE
  /\ source_opens = 0
  /\ resize_calls = 0
  /\ html_calls = <<>>
  /\ html_str = NoHtml
  /\ stdout = <<>>
  /\ error = ""

\* ------------------------------------------------------------- the app

\* A mutant of _version_callback: the version is echoed, typer.Exit is not
\* raised.
_version_callback_no_exit ==
  /\ pc = "cli"
  /\ stdout' = IF cli.version THEN Append(stdout, "version") ELSE stdout
  /\ pc' = "callback"
  /\ UNCHANGED <<cli, widths_list, filenames, call, r_i, r_out, disk,
                 source_exists, source_opens, resize_calls, html_calls,
                 html_str, error>>

\* The eager option callback: with --version/-v, echo name and version and
\* raise typer.Exit; nothing else of the command line is processed.
_version_callback ==
  /\ pc = "cli"
  /\ stdout' = IF cli.version THEN Append(stdout, "version") ELSE stdout
  /\ pc' = IF cli.version THEN "exit" ELSE "callback"
  /\ UNCHANGED <<cli, widths_list, filenames, call, r_i, r_out, disk,
                 source_exists, source_opens, resize_calls, html_calls,
                 html_str, error>>

\* The application callback; the command, if one was given, runs after it
\* (invoke_without_command: without a command the run ends here).
version ==
  /\ pc = "callback"
  /\ pc' = IF cli.command = "image" THEN "image" ELSE "exit"
  /\ UNCHANGED <<cli, widths_list, filenames, call, r_i, r_out, disk,
                 source_exists, source_opens, resize_calls, html_calls,
                 html_str, stdout, error>>

\* image, lines 89-101: the options are echoed.
image_echo ==
  /\ pc = "image"
  /\ stdout' = Append(stdout, "options")
  /\ pc' = "parse"
  /\ UNCHANGED <<cli, widths_list, filenames, call, r_i, r_out, disk,
                 source_exists, source_opens, resize_calls, html_calls,
                 html_str, error>>

\* image, lines 103-104: split --widths and convert every token.
image_parse ==
  /\ pc = "parse"
  /\ LET parsed == int_list(widths_split(cli.widths))
     IN  IF parsed.ok
         THEN /\ widths_list' = parsed.val
              /\ pc' = "resize"
              /\ error' = error
         ELSE /\ widths_list' = widths_list
              /\ pc' = "raised"
              /\ error' = "ValueError"
  /\ UNCHANGED <<cli, filenames, call, r_i, r_out, disk, source_exists,
                 source_opens, resize_calls, html_calls, html_str, stdout>>

\* A mutant of the call: lower and dashes change places.
resize_image_kwargs_swapped ==
  [file |-> cli.image, widths |-> widths_list, fmt |-> cli.fmt,
   lower |-> cli.dashes, dashes |-> cli.lower]

\* image, lines 106-114: the arguments of the resize_image call.
resize_image_kwargs ==
  [file |-> cli.image, widths |-> widths_list, fmt |-> cli.fmt,
   lower |-> cli.lower, dashes |-> cli.dashes]

\* image, line 107: resize_image is called.
image_resize_call ==
  /\ pc = "resize"
  /\ call' = resize_image_kwargs
  /\ resize_calls' = resize_calls + 1
  /\ r_i' = 1
  /\ r_out' = <<>>
  /\ pc' = "r_open"
  /\ UNCHANGED <<cli, widths_list, filenames, disk, source_exists,
                 source_opens, html_calls, html_str, stdout, error>>

\* resize_image: the source is opened and decoded.
resize_image_open ==
  /\ pc = "r_open"
  /\ source_opens' = source_opens + 1
  /\ pc' = "r_loop"
  /\ UNCHANGED <<cli, widths_list, filenames, call, r_i, r_out, disk,
                 source_exists, resize_calls, html_calls, html_str, stdout,
                 error>>

\* resize_image: the source cannot be read as an image.
resize_image_open_fail ==
  /\ pc = "r_open"
  /\ source_opens' = source_opens + 1
  /\ error' = "DecodeError"
  /\ pc' = "r_raised"
  /\ UNCHANGED <<cli, widths_list, filenames, call, r_i, r_out, disk,
                 source_exists, resize_calls, html_calls, html_str, stdout>>

\* resize_image: the next width is scaled, encoded and written.
resize_image_save ==
  /\ pc = "r_loop"
  /\ r_i <= Len(call.widths)
  /\ call.widths[r_i] > 0
  /\ call.fmt \in Formats
  /\ LET name == new_filename(call.file, call.widths[r_i], call.fmt,
                              call.lower, call.dashes)
     IN  /\ disk' = disk \cup {name}
         /\ r_out' = Append(r_out, name)
  /\ r_i' = r_i + 1
  /\ UNCHANGED <<cli, pc, widths_list, filenames, call, source_exists,
                 source_opens, resize_calls, html_calls, html_str, stdout,
                 error>>

\* resize_image: encoding or writing the next width fails (always so for a
\* width that is not positive and for a format that is not supported); the
\* files of the widths before it stay.
resize_image_save_fail ==
  /\ pc = "r_loop"
  /\ r_i <= Len(call.widths)
  /\ error' = "EncodeError"
  /\ pc' = "r_raised"
  /\ UNCHANGED <<cli, widths_list, filenames, call, r_i, r_out, disk,
                 source_exists, source_opens, resize_calls, html_calls,
                 html_str, stdout>>

\* resize_image: every width is done; the names are returned.
resize_image_return ==
  /\ pc = "r_loop"
  /\ r_i > Len(call.widths)
  /\ pc' = "r_returned"
  /\ UNCHANGED <<cli, widths_list, filenames, call, r_i, r_out, disk,
                 source_exists, source_opens, resize_calls, html_calls,
                 html_str, stdout, error>>

\* image, lines 107 and 115: the result is bound and echoed.
image_resize_return ==
  /\ pc = "r_returned"
  /\ filenames' = r_out
  /\ stdout' = Append(stdout, "filenames")
  /\ pc' = "html"
  /\ UNCHANGED <<cli, widths_list, call, r_i, r_out, disk, source_exists,
                 source_opens, resize_calls, html_calls, html_str, error>>

\* A mutant of image_resize_raise: the exception is caught and the run goes
\* on with the names produced so far.
image_resize_caught ==
  /\ pc = "r_raised"
  /\ filenames' = r_out
  /\ stdout' = Append(stdout, "filenames")
  /\ pc' = "html"
  /\ UNCHANGED <<cli, widths_list, call, r_i, r_out, disk, source_exists,
                 source_opens, resize_calls, html_calls, html_str, error>>

\* image, line 107: an exception of resize_image is not handled; it ends
\* image.
image_resize_raise ==
  /\ pc = "r_raised"
  /\ pc' = "raised"
  /\ UNCHANGED <<cli, widths_list, filenames, call, r_i, r_out, disk,
                 source_exists, source_opens, resize_calls, html_calls,
                 html_str, stdout, error>>

\* A mutant of image_html_call: make_html is called whatever --html says.
image_html_call_always ==
  /\ pc = "html"
  /\ html_calls' = Append(html_calls, filenames)
  /\ pc' = "h_call"
  /\ UNCHANGED <<cli, widths_list, filenames, call, r_i, r_out, disk,
                 source_exists, source_opens, resize_calls, html_str, stdout,
                 error>>

\* A mutant of image_html_call: make_html gets the names without duplicates,
\* as from list(dict.fromkeys(filenames)).
RECURSIVE Dedup(_)
Dedup(q) ==
  IF q = <<>> THEN <<>>
  ELSE LET init == Dedup(SubSeq(q, 1, Len(q) - 1))
       IN  IF \E i \in 1..Len(init) : init[i] = q[Len(q)]
           THEN init ELSE Append(init, q[Len(q)])

image_html_call_dedup ==
  /\ pc = "html"
  /\ IF cli.html
     THEN /\ html_calls' = Append(html_calls, Dedup(filenames))
          /\ pc' = "h_call"
     ELSE /\ html_calls' = html_calls
          /\ pc' = "delete"
  /\ UNCHANGED <<cli, widths_list, filenames, call, r_i, r_out, disk,
                 source_exists, source_opens, resize_calls, html_str, stdout,
                 error>>

\* image, lines 117-127: with --html, make_html is called with the names
\* resize_image returned; without, the step is skipped.
image_html_call ==
  /\ pc = "html"
  /\ IF cli.html
     THEN /\ html_calls' = Append(html_calls, filenames)
          /\ pc' = "h_call"
     ELSE /\ html_calls' = html_calls
          /\ pc' = "delete"
  /\ UNCHANGED <<cli, widths_list, filenames, call, r_i, r_out, disk,
                 source_exists, source_opens, resize_calls, html_str, stdout,
                 error>>

\* make_html: the tag is built from the names it was given.
make_html_return ==
  /\ pc = "h_call"
  /\ html_calls[Len(html_calls)] # <<>>
  /\ html_str' = make_html(html_calls[Len(html_calls)])
  /\ pc' = "h_returned"
  /\ UNCHANGED <<cli, widths_list, filenames, call, r_i, r_out, disk,
                 source_exists, source_opens, resize_calls, html_calls,
                 stdout, error>>

\* make_html raises: FormatError for an empty list of names; for any other
\* list, whatever else may go wrong inside it.
make_html_raise ==
  /\ pc = "h_call"
  /\ error' = IF html_calls[Len(html_calls)] = <<>>
              THEN "FormatError" ELSE "Exception"
  /\ pc' = "h_raised"
  /\ UNCHANGED <<cli, widths_list, filenames, call, r_i, r_out, disk,
                 source_exists, source_opens, resize_calls, html_calls,
                 html_str, stdout>>

\* image, lines 118 and 128: the tag is bound and echoed.
image_html_return ==
  /\ pc = "h_returned"
  /\ stdout' = Append(stdout, "html")
  /\ pc' = "delete"
  /\ UNCHANGED <<cli, widths_list, filenames, call, r_i, r_out, disk,
                 source_exists, source_opens, resize_calls, html_calls,
                 html_str, error>>

\* A mutant of image_html_raise: the exception of make_html is caught and
\* the run goes on to the delete step.
image_html_caught ==
  /\ pc = "h_raised"
  /\ pc' = "delete"
  /\ UNCHANGED <<cli, widths_list, filenames, call, r_i, r_out, disk,
                 source_exists, source_opens, resize_calls, html_calls,
                 html_str, stdout, error>>

\* image, line 118: an exception of make_html is not handled; it ends image.
image_html_raise ==
  /\ pc = "h_raised"
  /\ pc' = "raised"
  /\ UNCHANGED <<cli, widths_list, filenames, call, r_i, r_out, disk,
                 source_exists, source_opens, resize_calls, html_calls,
                 html_str, stdout, error>>

\* A mutant of image_delete: the unlink sits in a finally block, and runs
\* also when resize_image has raised.
image_delete_finally ==
  /\ pc \in {"delete", "r_raised"}
  /\ IF cli.delete
     THEN /\ source_exists' = FALSE
          /\ stdout' = Append(stdout, "deleted")
     ELSE /\ source_exists' = source_exists
          /\ stdout' = stdout
  /\ pc' = IF pc = "delete" THEN "done" ELSE "raised"
  /\ UNCHANGED <<cli, widths_list, filenames, call, r_i, r_out, disk,
                 source_opens, resize_calls, html_calls, html_str, error>>

\* image, lines 130-132: with --delete, the source file is unlinked and the
\* deletion echoed.
image_delete ==
  /\ pc = "delete"
  /\ IF cli.delete
     THEN /\ source_exists' = FALSE
          /\ stdout' = Append(stdout, "deleted")
     ELSE /\ source_exists' = source_exists
          /\ stdout' = stdout
  /\ pc' = "done"
  /\ UNCHANGED <<cli, widths_list, filenames, call, r_i, r_out, disk,
                 source_opens, resize_calls, html_calls, html_str, error>>

\* image, lines 134-136: the completion message, and image returns.
image_done ==
  /\ pc = "done"
  /\ stdout' = Append(stdout, "done")
  /\ pc' = "returned"
  /\ UNCHANGED <<cli, widths_list, filenames, call, r_i, r_out, disk,
                 source_exists, source_opens, resize_calls, html_calls,
                 html_str, error>>

Next ==
  \/ _version_callback
  \/ version
  \/ image_echo
  \/ image_parse
  \/ image_resize_call
  \/ resize_image_open
  \/ resize_image_open_fail
  \/ resize_image_save
  \/ resize_image_save_fail
  \/ resize_image_return
  \/ image_resize_return
  \/ image_resize_raise
  \/ image_html_call
  \/ make_html_return
  \/ make_html_raise
  \/ image_html_return
  \/ image_html_raise
  \/ image_delete
  \/ image_done

Spec == Init /\ [][Next]_vars

\* The run is over: typer.Exit, an unhandled exception, or image returned.
Terminated == pc \in {"exit", "raised", "returned"}

\* ---------------------------------------------------------------- claims

\* The tokens of --widths, as str.split gives them.
Tokens == split(cli.widths)

\* Some token of --widths is no integer for int().
BadWidths == \E i \in 1..Len(Tokens) : ~py_int(Tokens[i]).ok

\* The width the i-th token of --widths stands for.
TokenWidth(i) == py_int(Tokens[i]).val

\* resize_image has returned to image (line 115 echoed its result).
ResizeReturned == \E i \in 1..Len(stdout) : stdout[i] = "filenames"

\* resize_image has raised.
ResizeFailed == error \in {"DecodeError", "EncodeError"}

\* make_html has returned to image.
HtmlBuilt == html_str # NoHtml

EndsWith(s, suffix) ==
  /\ Len(suffix) <= Len(s)
  /\ SubSeq(s, Len(s) - Len(suffix) + 1, Len(s)) = suffix

NonDecreasing(q) == \A i, j \in 1..Len(q) : i < j => q[i] <= q[j]

\* C1: with --delete the source file is removed only after resize_image has
\* returned the names of all requested widths, every one of them written;
\* when resize_image raises, at the first or at a later width, the source
\* file still exists, also when the run has terminated.
C1_DeleteOnlyAfterResize ==
  /\ ~source_exists =>
       /\ cli.delete
       /\ ResizeReturned
       /\ Len(filenames) = Len(widths_list)
       /\ \A i \in 1..Len(filenames) : filenames[i] \in disk
  /\ ResizeFailed => source_exists

\* C1 witness: a run with --delete in which a later width failed after an
\* earlier width's file was written has terminated.
C1_Witness ==
  /\ pc = "raised"
  /\ error = "EncodeError"
  /\ cli.delete
  /\ disk # {}
  /\ source_exists

\* C2: when some token of --widths is no integer, whatever its position, the
\* image command ends with the ValueError of int() and before any file I/O:
\* resize_image and make_html are never called, no file is written, the
\* source is neither opened nor deleted.
C2_BadWidthsNoIO ==
  /\ BadWidths =>
       /\ pc \in {"cli", "callback", "exit", "image", "parse", "raised"}
       /\ pc = "raised" => error = "ValueError"
       /\ resize_calls = 0
       /\ html_calls = <<>>
       /\ disk = {}
       /\ source_opens = 0
       /\ source_exists
  /\ (/\ cli.widths \in {<<"6", "0", "0", ",", "a", "b", "c">>,
                         <<"a", "b", "c", ",", "6", "0", "0">>,
                         <<"6", ",", "1", ",">>, <<>>}
      /\ Terminated
      /\ pc # "exit") => error = "ValueError"

\* C2 witness: the run of --widths 600,abc has ended with the ValueError.
C2_Witness ==
  /\ cli.widths = <<"6", "0", "0", ",", "a", "b", "c">>
  /\ pc = "raised"
  /\ error = "ValueError"

\* C3: when resize_image has returned, it returned as many names as
\* --widths has tokens, and the i-th name carries the i-th width (it ends
\* with -{width}.{fmt}), also for lists out of order or with duplicates.
C3_OneNamePerWidthInOrder ==
  ResizeReturned =>
    /\ Len(filenames) = Len(Tokens)
    /\ \A i \in 1..Len(filenames) :
         /\ py_int(Tokens[i]).ok
         /\ EndsWith(filenames[i],
                     <<"-">> \o decimal(TokenWidth(i)) \o <<".">> \o cli.fmt)

\* C3 witness: a list that is out of order and holds a duplicate was resized.
C3_Witness ==
  /\ cli.widths = <<"6", ",", "1", ",", "6">>
  /\ pc = "returned"
  /\ Len(filenames) = 3

\* C4: with --version/-v the run echoes name and version and exits at once:
\* resize_image and make_html are never called, no file is written and the
\* source is not deleted, whatever else is on the command line.
C4_VersionShortCircuits ==
  cli.version =>
    /\ pc \in {"cli", "exit"}
    /\ pc = "exit" => stdout = <<"version">>
    /\ resize_calls = 0
    /\ html_calls = <<>>
    /\ disk = {}
    /\ source_opens = 0
    /\ source_exists

\* C4 witness: a run with --version, the image command, --html and --delete
\* has exited.
C4_Witness ==
  /\ cli.version
  /\ cli.command = "image"
  /\ cli.html
  /\ cli.delete
  /\ pc = "exit"

\* C5 as stated: with --delete, once resize_image has succeeded the source
\* file is deleted by the end of the run, also when make_html failed.
C5_DeleteUnconditional ==
  (Terminated /\ cli.delete /\ ResizeReturned) => ~source_exists

\* C5 as amended: with --delete, once resize_image has succeeded, the source
\* file is deleted by the end of the run exactly when the run did not end
\* with an exception of make_html; when make_html raises, the unlink is never
\* reached and the source file remains.
C5_DeleteUnlessHtmlFails ==
  (Terminated /\ cli.delete /\ ResizeReturned) =>
    /\ source_exists <=> error # ""
    /\ error # "" => (cli.html /\ Len(html_calls) = 1 /\ pc = "raised")

\* C5 witness: a run with --delete has ended with an exception of make_html
\* after resize_image succeeded.
C5_Witness ==
  /\ pc = "raised"
  /\ error = "Exception"
  /\ cli.delete
  /\ ResizeReturned
  /\ filenames # <<>>

\* C6: once a step has failed, nothing further happens: no later width is
\* processed, make_html, the unlink and the echoes do not run, and the files
\* already written stay as they are; the exception only travels up to end
\* image.
C6_FailureAborts ==
  [][error # "" =>
       /\ pc' = "raised"
       /\ UNCHANGED <<cli, widths_list, filenames, call, r_i, r_out, disk,
                      source_exists, source_opens, resize_calls, html_calls,
                      html_str, stdout, error>>]_vars

\* C6 witness: a run with --html and --delete has ended on the failure of a
\* later width, with the first width's file on disk.
C6_Witness ==
  /\ pc = "raised"
  /\ error = "EncodeError"
  /\ r_i > 1
  /\ r_i <= Len(call.widths)
  /\ Cardinality(disk) = r_i - 1
  /\ cli.html
  /\ cli.delete
  /\ stdout = <<"options">>

\* The widths of the srcset entries, read from their descriptors.
SrcsetWidths ==
  [i \in 1..Len(html_str.srcset) |->
     LET d == html_str.srcset[i].descriptor
     IN  py_int(SubSeq(d, 1, Len(d) - 1)).val]

\* C7 as stated: the srcset has one entry per file name, each with its width
\* descriptor, in the order of the file names and in ascending order of
\* width, for every width list the command accepts.
C7_SrcsetAscending ==
  HtmlBuilt =>
    /\ Len(html_str.srcset) = Len(filenames)
    /\ \A i \in 1..Len(filenames) :
         /\ html_str.srcset[i].path = filenames[i]
         /\ html_str.srcset[i].descriptor = decimal(TokenWidth(i)) \o <<"w">>
    /\ NonDecreasing(SrcsetWidths)

\* C7 as amended: the srcset has one entry per file name, each with the
\* width descriptor of its width, in the order of the file names, which is
\* the order of the widths in --widths; the entries ascend in width exactly
\* when the widths were given in ascending order.
C7_SrcsetInInputOrder ==
  HtmlBuilt =>
    /\ Len(html_str.srcset) = Len(filenames)
    /\ Len(html_str.srcset) = Len(Tokens)
    /\ \A i \in 1..Len(filenames) :
         /\ html_str.srcset[i].path = filenames[i]
         /\ html_str.srcset[i].descriptor = decimal(TokenWidth(i)) \o <<"w">>
    /\ NonDecreasing(SrcsetWidths)
         <=> NonDecreasing([i \in 1..Len(Tokens) |-> TokenWidth(i)])

\* C7 witness: the tag was built for --widths 1000,600.
C7_Witness ==
  /\ HtmlBuilt
  /\ cli.widths = <<"1", "0", "0", "0", ",", "6", "0", "0">>
  /\ pc = "returned"

\* The stems of the source images, written out.
StemOf(image) ==
  IF image = <<"p", "h", "o", "t", "o", "_", "o", "n", "e", ".", "J", "P", "G">>
  THEN <<"p", "h", "o", "t", "o", "_", "o", "n", "e">>
  ELSE <<"X", "_", "y">>

\* C8: every returned name is the source stem, lowercased iff --lower, its
\* underscores replaced by hyphens iff --dashes, followed by
\* -{width}.{fmt}; so with --lower no name holds an uppercase letter, with
\* --dashes no name holds an underscore, and photo_one.JPG at 400,800 as
\* webp with both flags gives photo-one-400.webp and photo-one-800.webp.
C8_FileNames ==
  ResizeReturned =>
    /\ \A i \in 1..Len(filenames) :
         LET s0 == StemOf(cli.image)
             s1 == IF cli.lower THEN lower_text(s0) ELSE s0
             s2 == IF cli.dashes THEN dashes_text(s1) ELSE s1
         IN  filenames[i] =
               s2 \o <<"-">> \o decimal(TokenWidth(i)) \o <<".">> \o cli.fmt
    /\ cli.lower =>
         \A i \in 1..Len(filenames) : \A k \in 1..Len(filenames[i]) :
           \A u \in 1..Len(Upper) : filenames[i][k] # Upper[u]
    /\ cli.dashes =>
         \A i \in 1..Len(filenames) : Positions(filenames[i], "_") = {}
    /\ (/\ cli.image =
             <<"p", "h", "o", "t", "o", "_", "o", "n", "e", ".", "J", "P", "G">>
        /\ cli.widths = <<"4", "0", "0", ",", "8", "0", "0">>
        /\ cli.fmt = <<"w", "e", "b", "p">>
        /\ cli.lower
        /\ cli.dashes) =>
         filenames =
           << <<"p", "h", "o", "t", "o", "-", "o", "n", "e", "-",
                "4", "0", "0", ".", "w", "e", "b", "p">>,
              <<"p", "h", "o", "t", "o", "-", "o", "n", "e", "-",
                "8", "0", "0", ".", "w", "e", "b", "p">> >>

\* C8 witness: photo_one.JPG was resized to 400,800 as webp with --lower and
\* --dashes.
C8_Witness ==
  /\ ResizeReturned
  /\ cli.image =
       <<"p", "h", "o", "t", "o", "_", "o", "n", "e", ".", "J", "P", "G">>
  /\ cli.widths = <<"4", "0", "0", ",", "8", "0", "0">>
  /\ cli.fmt = <<"w", "e", "b", "p">>
  /\ cli.lower
  /\ cli.dashes
  /\ pc = "returned"

\* What a run of image echoes when nothing fails.
FullOutput ==
  <<"options", "filenames">>
    \o (IF cli.html THEN <<"html">> ELSE <<>>)
    \o (IF cli.delete THEN <<"deleted">> ELSE <<>>)
    \o <<"done">>

\* C9: the steps of image come in the order parse, resize, HTML build,
\* delete, completion message: make_html is called at most once, only with
\* --html and after resize_image returned, with exactly the names it
\* returned, and always then; the completion message follows the delete.
C9_StepOrder ==
  /\ resize_calls <= 1
  /\ resize_calls = 1 =>
       /\ ~BadWidths
       /\ widths_list = [i \in 1..Len(Tokens) |-> TokenWidth(i)]
  /\ Len(html_calls) <= 1
  /\ Len(html_calls) = 1 =>
       /\ cli.html
       /\ ResizeReturned
       /\ html_calls[1] = filenames
       /\ filenames = r_out
  /\ (ResizeReturned /\ cli.html /\ pc # "html") => Len(html_calls) = 1
  /\ ~cli.version =>
       /\ Len(stdout) <= Len(FullOutput)
       /\ stdout = SubSeq(FullOutput, 1, Len(stdout))
  /\ (stdout # <<>> /\ stdout[Len(stdout)] = "done") =>
       /\ stdout = FullOutput
       /\ cli.delete => ~source_exists

\* C9 witness: a run with --html and --delete has gone through every step.
C9_Witness ==
  /\ pc = "returned"
  /\ cli.html
  /\ cli.delete
  /\ stdout = <<"options", "filenames", "html", "deleted", "done">>
  /\ ~source_exists

\* C10: make_html is never called with an empty list of names, and no run
\* ends with its FormatError: --widths always splits into at least one
\* token, an empty token fails int() before resize_image runs, and
\* resize_image returns one name per width.
C10_HtmlNeverEmpty ==
  /\ \A k \in 1..Len(html_calls) : html_calls[k] # <<>>
  /\ error # "FormatError"
  /\ Len(Tokens) >= 1
  /\ resize_calls > 0 => Len(widths_list) >= 1
  /\ ResizeReturned => Len(filenames) >= 1

\* C10 witness: make_html was called in a run whose --widths is one token.
C10_Witness ==
  /\ Len(html_calls) = 1
  /\ Len(Tokens) = 1
  /\ pc = "h_call"
====
